---- MODULE Spec2Model ----
(***************************************************************************)
(* gfal_crawler/cli.py: the recursive directory crawl of Crawler._crawl,   *)
(* driven by cli(), against a storage context (gfal2) whose opendir,       *)
(* readpp and checksum calls may raise GError.                             *)
(*                                                                         *)
(* The recursion is an explicit stack of frames; each frame holds the      *)
(* locals of one _crawl invocation and its position (pc).  The storage     *)
(* context is the environment: every call returns one of the outcomes the  *)
(* code distinguishes, chosen nondeterministically.                        *)
(***************************************************************************)
EXTENDS Integers, Sequences, FiniteSets, TLC

\* ---------------------------------------------------------------- bounds
\* directory entries the storage context serves during one crawl
MaxEntries == 3
\* read-error lines kept in `out`; later ones are written by the code but
\* fall outside the recorded window (the read loop itself is not bounded)
MaxReadErrs == 1
\* readings of time.time(), as ticks since the process started
MaxClock == 1
\* largest max_levels a Crawler is configured with
MaxLevelsBound == 1
\* crawl() calls one caller makes on the same Crawler
MaxCrawls == 2
\* largest permission part (the low bits) of the modes rendered
MaxPerm == 511

\* ------------------------------------------------------------ input sets
None == "None"
\* the value of a name that holds no dict yet
NoDict == [none |-> TRUE]
Algs == {None, "ADLER32"}
ChecksumValues == {"0a1b"}
RootUrl == <<"a">>
\* (dirent, fstat) pairs readpp can return: two regular files, two directories
DirEntries ==
  { [d_name |-> "f1", st_mode |-> 33188, st_size |-> 100],
    [d_name |-> "f2", st_mode |-> 33188, st_size |-> 50],
    [d_name |-> "d1", st_mode |-> 16877, st_size |-> 4],
    [d_name |-> "d2", st_mode |-> 16877, st_size |-> 4] }
\* the namespace the storage context serves listings from: the root holds
\* f1, d1 and d2, every other directory holds f2 and d1, to any depth; a
\* listing is any selection of the directory's entries in any order
PortEntries(url) ==
  IF url = RootUrl
  THEN {e \in DirEntries : e.d_name \in {"f1", "d1", "d2"}}
  ELSE {e \in DirEntries : e.d_name \in {"f2", "d1"}}

\* file types, the high bits of st_mode: fifo, directory, regular, link
FileTypes == {1, 4, 8, 10}
\* the modes _mode2str is given
Modes == {t * 4096 + p : t \in FileTypes, p \in 0..MaxPerm}

\* the two ways readpp signals the end of a directory (line 115)
EndSignals == {"dirent_none", "empty_name"}

VARIABLES
  cfg,        \* the Crawler's configuration: long, max_levels, checksum_alg
  made,       \* harvest dicts created so far (lines 84-89); the latest is
              \* the one `harvest` names
  earlier,    \* what earlier crawl() calls returned: the dict and its value
  fmt,        \* a call of _mode2str: its argument and, once made, its result
  cliPc,      \* position of cli(): start, crawling, returned, written, raised
  stack,      \* the active _crawl invocations, outermost first
  harvest,    \* the harvest dict shared by all invocations of one crawl
  out,        \* what was written to the `out` sink, in order
  printed,    \* what was print()ed, in order
  persisted,  \* the harvest json.dump wrote, or NoDict
  clock,      \* the latest reading of time.time()
  nServed,    \* entries served by readpp so far
  nReadErr,   \* read-error lines recorded in out
  port        \* observation of the storage context's calls

vars == <<cfg, made, earlier, fmt, cliPc, stack, harvest, out, printed,
          persisted, clock,
          nServed, nReadErr, port>>

\* ------------------------------------------------------------- helpers
Unbound == "unbound"

\* stat.S_ISDIR(mode): (mode & 0o170000) == 0o040000
S_ISDIR(mode) == (mode \div 4096) % 16 = 4

\* os.path.join(url, name), urls as sequences of path components
join(url, name) == Append(url, name)

\* surl.split("/")[-1]
basename(surl) == surl[Len(surl)]

\* {k.replace("st_", ""): getattr(fstat, k) ...}
FstatDict(fstat) == [mode |-> fstat.st_mode, size |-> fstat.st_size]

\* stat.S_ISLNK(mode), stat.S_ISREG(mode)
S_ISLNK(mode) == (mode \div 4096) % 16 = 10
S_ISREG(mode) == (mode \div 4096) % 16 = 8

\* the masks lines 45-49 test: stat.S_IRUSR, stat.S_IWUSR, stat.S_IXUSR
S_IRUSR == 256
S_IWUSR == 128
S_IXUSR == 64

\* mode & mask, for a mask of one bit
And(mode, mask) == (mode \div mask) % 2 = 1

\* (mutant) the mode is not shifted between the triads
Shift3_Lost(mode) == mode

\* line 51: mode = mode << 3 (Python integers do not overflow)
Shift3(mode) == mode * 8

\* the value of mode when the for loop of line 44 starts iteration i
RECURSIVE ModeAt(_, _)
ModeAt(mode, i) == IF i = 0 THEN mode ELSE Shift3(ModeAt(mode, i - 1))

\* lines 45-50: the three characters one iteration sets
Triad(mode) ==
  << IF And(mode, S_IRUSR) THEN "r" ELSE "-",
     IF And(mode, S_IWUSR) THEN "w" ELSE "-",
     IF And(mode, S_IXUSR) THEN "x" ELSE "-" >>

\* lines 37-42: the file type character
TypeChar(mode) ==
  IF S_ISDIR(mode) THEN "d"
  ELSE IF S_ISLNK(mode) THEN "l"
  ELSE IF ~S_ISREG(mode) THEN "?"
  ELSE "-"

\* _mode2str: the 10 characters, as a sequence
mode2str(mode) ==
  <<TypeChar(mode)>> \o Triad(ModeAt(mode, 0)) \o Triad(ModeAt(mode, 1))
    \o Triad(ModeAt(mode, 2))

\* _short_format: the name alone
short_format(fname) == <<fname>>

\* _long_format: the long listing of an entry, as its fields
long_format(fname, fstat) == <<mode2str(fstat.st_mode), fstat.st_size, fname>>

NewHarvest(t) ==
  [size_so_far |-> 0, files |-> <<>>, errors |-> <<>>, harvest_t0 |-> t]

NewFrame(url, level) ==
  [url |-> url, level |-> level, pc |-> "open", entries |-> <<>>, i |-> 0,
   record |-> Unbound]

Top == stack[Len(stack)]
Running == cliPc = "crawling" /\ Len(stack) > 0
SetTop(f) == [stack EXCEPT ![Len(stack)] = f]

\* (mutant) the for loop walks the list backwards
CurEntry_Reversed == Top.entries[Len(Top.entries) - Top.i]

\* the entry the for loop of the top frame is processing
CurEntry == Top.entries[Top.i + 1]

Sum(seq) ==
  LET RECURSIVE S(_)
      S(k) == IF k = 0 THEN 0 ELSE seq[k] + S(k - 1)
  IN S(Len(seq))

IsPrefix(s, t) == Len(s) <= Len(t) /\ SubSeq(t, 1, Len(s)) = s

NoCall == [op |-> "none", url |-> <<>>, level |-> 0, ok |-> TRUE]
Call(op, url, level, ok) == [op |-> op, url |-> url, level |-> level, ok |-> ok]

\* an entry readpp gave back for a directory, as the context saw it
ReadResult(url, entry) == [url |-> url, entry |-> entry]

NewPort ==
  [last |-> NoCall, called |-> {}, opened |-> {}, openFailed |-> {},
   ckFailed |-> {}, listed |-> {}, openOrder |-> <<>>, reads |-> <<>>]

Saw(c) == [port EXCEPT !.last = c, !.called = @ \cup {c.op}]

\* ---------------------------------------------------------------- Init
\* cli() lines 177-196: the options are parsed and the Crawler is made;
\* nothing has been crawled or rendered yet
Boot(longs, modes) ==
  /\ cfg \in [long : longs, max_levels : 0..MaxLevelsBound,
              checksum_alg : Algs]
  /\ made = 0
  /\ earlier = <<>>
  /\ fmt \in [mode : modes, str : {<<>>}]
  /\ cliPc = "start"
  /\ stack = <<>>
  /\ harvest = NoDict
  /\ out = <<>>
  /\ printed = <<>>
  /\ persisted = NoDict
  /\ clock = 0
  /\ nServed = 0
  /\ nReadErr = 0
  /\ port = NewPort

\* a run without -l (line 179: default False); fmt holds mode 0100644
Init == Boot({FALSE}, {33188})

\* a run with or without -l
InitLong == Boot(BOOLEAN, {33188})

\* _mode2str is about to be called with any of the modes
InitMode == Boot({FALSE}, Modes)

\* ------------------------------------------------------------- actions
\* cli() line 197 -> crawl() -> _crawl(url, out): harvest is None, so a
\* fresh harvest is made (lines 83-89); then "opening" is printed
CrawlCall ==
  /\ cliPc = "start"
  /\ cliPc' = "crawling"
  /\ harvest' = NewHarvest(clock)
  /\ made' = made + 1
  /\ stack' = <<NewFrame(RootUrl, 0)>>
  /\ printed' = Append(printed, <<"opening", RootUrl>>)
  /\ UNCHANGED <<cfg, earlier, fmt, out, persisted, clock, nServed, nReadErr,
                 port>>

\* a _crawl invocation returns harvest to its caller: cli() for the
\* outermost one, else line 166 of the parent, whose for loop goes on
ReturnTo ==
  IF Len(stack) = 1
  THEN /\ stack' = <<>>
       /\ cliPc' = "returned"
  ELSE /\ stack' = [SubSeq(stack, 1, Len(stack) - 1)
                      EXCEPT ![Len(stack) - 1].pc = "loop",
                             ![Len(stack) - 1].i = @ + 1]
       /\ UNCHANGED cliPc

\* ---- what one step of the code computes (one operator per statement) ----
\* (mutant) the failed url is put on the ledger
OpenFailHarvest_Ledger(h, url) == [h EXCEPT !.errors = Append(@, [url |-> url])]

\* lines 99-101: opendir raised; the handler returns harvest as it is
OpenFailHarvest(h, url) == h

\* (mutant) nothing is put on the ledger
OpenOkHarvest_NoLedger(h, url) == h

\* line 103: after a successful opendir the url goes to harvest['errors']
OpenOkHarvest(h, url) == [h EXCEPT !.errors = Append(@, [url |-> url])]

\* line 100: out.write(tabbing + "" + '!' + url), no newline
OpenFailLine(level, url) ==
  [kind |-> "openfail", tabbing |-> level, url |-> url, newline |-> FALSE]

\* line 112: out.write(tabbing + "" + '!' + url + ": " + repr(e) + "\n")
ReadErrLine(level, url) ==
  [kind |-> "readerr", tabbing |-> level, url |-> url, newline |-> TRUE]

\* line 115: the read ends the listing
EndOfDirectory(sig) == sig \in EndSignals

\* lines 148-151: the record of an entry before checksum_record
BaseRecord(surl, fstat) == [url |-> surl, fstat |-> FstatDict(fstat)]

\* (mutant) the algorithm is not tested
ChecksumWanted_Always(alg) == TRUE

\* line 66: checksum_record asks the context only when an algorithm is set
ChecksumWanted(alg) == alg # None

\* line 71: the dict checksum_record returns when the context answered
ChecksumDict(alg, value) == [checksums |-> (alg :> value)]

\* lines 72-74, 78: the dict checksum_record returns when checksum raised
\* GError (and, line 65-67, when no algorithm is set): {}
NoChecksumDict == [k \in {} |-> k]

\* line 153: record.update(d)
Update(record, d) == d @@ record

\* (mutant) the record of a directory is left out
AppendFile_FilesOnly(h, record) ==
  IF S_ISDIR(record.fstat.mode) THEN h
  ELSE [h EXCEPT !.files = Append(@, record)]

\* (mutant) the record is put in front
AppendFile_Prepend(h, record) == [h EXCEPT !.files = <<record>> \o @]

\* line 155: harvest['files'].append(record)
AppendFile(h, record) == [h EXCEPT !.files = Append(@, record)]

\* (mutant) the size of a directory is not counted
AddSize_SkipDirs(h, fstat) ==
  IF S_ISDIR(fstat.st_mode) THEN h
  ELSE [h EXCEPT !.size_so_far = @ + fstat.st_size]

\* line 159: harvest['size_so_far'] += fstat.st_size
AddSize(h, fstat) == [h EXCEPT !.size_so_far = @ + fstat.st_size]

\* line 161: len(files) / (time.time() - harvest_t0) raises
\* ZeroDivisionError when the two readings of the clock are equal
RateRaises(h, t) == t - h.harvest_t0 = 0

\* line 163: the progress line of an entry
EntryLine(h, level, surl, fstat, record) ==
  [kind |-> "entry", tabbing |-> level, size_so_far |-> h.size_so_far,
   nfiles |-> Len(h.files), listing |-> long_format(basename(surl), fstat),
   checksums |-> IF "checksums" \in DOMAIN record
                 THEN record.checksums ELSE "no checksums",
   newline |-> TRUE]

\* (mutant) the depth is not tested
DescendCond_NoLimit(fstat, level) == S_ISDIR(fstat.st_mode)

\* (mutant) the depth test is strict
DescendCond_Strict(fstat, level) ==
  S_ISDIR(fstat.st_mode) /\ level < cfg.max_levels

\* line 165: stat.S_ISDIR(fstat.st_mode) and level <= self.max_levels
DescendCond(fstat, level) == S_ISDIR(fstat.st_mode) /\ level <= cfg.max_levels

\* ------------------------------------------------- _crawl, step by step
\* (mutant) the GError of opendir is not caught: it unwinds the crawl
OpendirFail_Uncaught ==
  /\ Running /\ Top.pc = "open"
  /\ port' = [Saw(Call("opendir", Top.url, Top.level, FALSE))
                EXCEPT !.openFailed = @ \cup {Top.url}]
  /\ stack' = <<>>
  /\ cliPc' = "raised"
  /\ UNCHANGED <<cfg, made, earlier, fmt, harvest, out, printed, persisted,
                 clock, nServed, nReadErr>>

\* line 98 raises GError: lines 99-101
OpendirFail ==
  /\ Running /\ Top.pc = "open"
  /\ out' = Append(out, OpenFailLine(Top.level, Top.url))
  /\ harvest' = OpenFailHarvest(harvest, Top.url)
  /\ port' = [Saw(Call("opendir", Top.url, Top.level, FALSE))
                EXCEPT !.openFailed = @ \cup {Top.url}]
  /\ ReturnTo
  /\ UNCHANGED <<cfg, made, earlier, fmt, printed, persisted, clock, nServed,
                 nReadErr>>

\* line 98 succeeds: lines 103-107
OpendirOk ==
  /\ Running /\ Top.pc = "open"
  /\ harvest' = OpenOkHarvest(harvest, Top.url)
  /\ printed' = Append(printed, <<"opened in", Top.url>>)
  /\ stack' = SetTop([Top EXCEPT !.pc = "read", !.entries = <<>>])
  /\ port' = [Saw(Call("opendir", Top.url, Top.level, TRUE))
                EXCEPT !.opened = @ \cup {Top.url},
                       !.openOrder = Append(@, Top.url)]
  /\ UNCHANGED <<cfg, made, earlier, fmt, cliPc, out, persisted, clock,
                 nServed, nReadErr>>

\* (mutant) an entry is handed to the for loop as soon as it is read
ReadEntry_Stream ==
  /\ Running /\ Top.pc = "read"
  /\ nServed < MaxEntries
  /\ \E e \in PortEntries(Top.url) :
       /\ \A k \in 1..Len(Top.entries) : Top.entries[k].d_name # e.d_name
       /\ stack' = SetTop([Top EXCEPT !.entries = Append(@, e), !.pc = "loop"])
       /\ port' = [Saw(Call("readpp", Top.url, Top.level, TRUE))
                     EXCEPT !.reads = Append(@, ReadResult(Top.url, e))]
  /\ nServed' = nServed + 1
  /\ UNCHANGED <<cfg, made, earlier, fmt, cliPc, harvest, out, printed,
                 persisted, clock, nReadErr>>

\* line 110 returns an entry with a nonempty name: line 118
\* (a directory does not list one name twice)
ReadEntry ==
  /\ Running /\ Top.pc = "read"
  /\ nServed < MaxEntries
  /\ \E e \in PortEntries(Top.url) :
       /\ \A k \in 1..Len(Top.entries) : Top.entries[k].d_name # e.d_name
       /\ stack' = SetTop([Top EXCEPT !.entries = Append(@, e)])
       /\ port' = [Saw(Call("readpp", Top.url, Top.level, TRUE))
                     EXCEPT !.reads = Append(@, ReadResult(Top.url, e))]
  /\ nServed' = nServed + 1
  /\ UNCHANGED <<cfg, made, earlier, fmt, cliPc, harvest, out, printed,
                 persisted, clock, nReadErr>>

\* line 110 returns the end of the directory: lines 115-116, 120
ReadEnd ==
  /\ Running /\ Top.pc = "read"
  /\ \E sig \in EndSignals : EndOfDirectory(sig)
  /\ printed' = Append(printed, <<"found entries", Len(Top.entries)>>)
  /\ stack' = SetTop([Top EXCEPT !.pc = "loop", !.i = 0])
  /\ port' = [Saw(Call("readpp", Top.url, Top.level, TRUE))
                EXCEPT !.listed = @ \cup {<<Top.url, Top.entries>>}]
  /\ UNCHANGED <<cfg, made, earlier, fmt, cliPc, harvest, out, persisted,
                 clock, nServed, nReadErr>>

\* line 110 raises GError: control enters the handler of line 111
ReadFail ==
  /\ Running /\ Top.pc = "read"
  /\ stack' = SetTop([Top EXCEPT !.pc = "readexc"])
  /\ port' = Saw(Call("readpp", Top.url, Top.level, FALSE))
  /\ UNCHANGED <<cfg, made, earlier, fmt, cliPc, harvest, out, printed,
                 persisted, clock, nServed, nReadErr>>

\* (mutant) the handler gives up the listing: break instead of continue
ReadExcept_Break ==
  /\ Running /\ Top.pc = "readexc"
  /\ out' = IF nReadErr < MaxReadErrs
            THEN Append(out, ReadErrLine(Top.level, Top.url)) ELSE out
  /\ nReadErr' = IF nReadErr < MaxReadErrs THEN nReadErr + 1 ELSE nReadErr
  /\ stack' = SetTop([Top EXCEPT !.pc = "loop", !.i = 0])
  /\ UNCHANGED <<cfg, made, earlier, fmt, cliPc, harvest, printed, persisted,
                 clock, nServed, port>>

\* lines 112-113: write the error line and read again
ReadExcept ==
  /\ Running /\ Top.pc = "readexc"
  /\ out' = IF nReadErr < MaxReadErrs
            THEN Append(out, ReadErrLine(Top.level, Top.url)) ELSE out
  /\ nReadErr' = IF nReadErr < MaxReadErrs THEN nReadErr + 1 ELSE nReadErr
  /\ stack' = SetTop([Top EXCEPT !.pc = "read"])
  /\ UNCHANGED <<cfg, made, earlier, fmt, cliPc, harvest, printed, persisted,
                 clock, nServed, port>>

\* lines 122, 137-153 with checksum_alg None: checksum_record returns {}
\* without a call to the context
ChecksumSkipped ==
  /\ Running /\ Top.pc = "loop" /\ Top.i < Len(Top.entries)
  /\ ~ChecksumWanted(cfg.checksum_alg)
  /\ stack' = SetTop([Top EXCEPT !.pc = "append",
       !.record = Update(BaseRecord(join(Top.url, CurEntry.d_name), CurEntry),
                         NoChecksumDict)])
  /\ UNCHANGED <<cfg, made, earlier, fmt, cliPc, harvest, out, printed,
                 persisted, clock, nServed, nReadErr, port>>

\* lines 122, 137-153: context.checksum answers (lines 70-71)
ChecksumOk ==
  /\ Running /\ Top.pc = "loop" /\ Top.i < Len(Top.entries)
  /\ ChecksumWanted(cfg.checksum_alg)
  /\ LET surl == join(Top.url, CurEntry.d_name) IN
     /\ \E v \in ChecksumValues :
          stack' = SetTop([Top EXCEPT !.pc = "append",
            !.record = Update(BaseRecord(surl, CurEntry),
                              ChecksumDict(cfg.checksum_alg, v))])
     /\ port' = Saw(Call("checksum", surl, Top.level, TRUE))
  /\ UNCHANGED <<cfg, made, earlier, fmt, cliPc, harvest, out, printed,
                 persisted, clock, nServed, nReadErr>>

\* (mutant) an entry whose checksum fails is skipped
ChecksumFail_Skip ==
  /\ Running /\ Top.pc = "loop" /\ Top.i < Len(Top.entries)
  /\ ChecksumWanted(cfg.checksum_alg)
  /\ LET surl == join(Top.url, CurEntry.d_name) IN
     /\ stack' = SetTop([Top EXCEPT !.i = @ + 1])
     /\ printed' = Append(printed, <<"unable to compute checksum", surl>>)
     /\ port' = [Saw(Call("checksum", surl, Top.level, FALSE))
                   EXCEPT !.ckFailed = @ \cup {surl}]
  /\ UNCHANGED <<cfg, made, earlier, fmt, cliPc, harvest, out, persisted,
                 clock, nServed, nReadErr>>

\* lines 122, 137-153: context.checksum raises GError (lines 72-74)
ChecksumFail ==
  /\ Running /\ Top.pc = "loop" /\ Top.i < Len(Top.entries)
  /\ ChecksumWanted(cfg.checksum_alg)
  /\ LET surl == join(Top.url, CurEntry.d_name) IN
     /\ stack' = SetTop([Top EXCEPT !.pc = "append",
          !.record = Update(BaseRecord(surl, CurEntry), NoChecksumDict)])
     /\ printed' = Append(printed, <<"unable to compute checksum", surl>>)
     /\ port' = [Saw(Call("checksum", surl, Top.level, FALSE))
                   EXCEPT !.ckFailed = @ \cup {surl}]
  /\ UNCHANGED <<cfg, made, earlier, fmt, cliPc, harvest, out, persisted,
                 clock, nServed, nReadErr>>

\* line 155
AppendRecord ==
  /\ Running /\ Top.pc = "append"
  /\ harvest' = AppendFile(harvest, Top.record)
  /\ stack' = SetTop([Top EXCEPT !.pc = "size"])
  /\ UNCHANGED <<cfg, made, earlier, fmt, cliPc, out, printed, persisted,
                 clock, nServed, nReadErr, port>>

\* lines 157-159
AddEntrySize ==
  /\ Running /\ Top.pc = "size"
  /\ harvest' = AddSize(harvest, CurEntry)
  /\ stack' = SetTop([Top EXCEPT !.pc = "rate"])
  /\ UNCHANGED <<cfg, made, earlier, fmt, cliPc, out, printed, persisted,
                 clock, nServed, nReadErr, port>>

\* lines 161-163 when the clock has moved since harvest_t0
RateAndProgress ==
  /\ Running /\ Top.pc = "rate"
  /\ \E t \in clock..MaxClock :
       /\ ~RateRaises(harvest, t)
       /\ clock' = t
  /\ out' = Append(out, EntryLine(harvest, Top.level,
                          join(Top.url, CurEntry.d_name), CurEntry, Top.record))
  /\ stack' = SetTop([Top EXCEPT !.pc = "descend"])
  /\ UNCHANGED <<cfg, made, earlier, fmt, cliPc, harvest, printed, persisted,
                 nServed, nReadErr, port>>

\* line 161 when it has not: ZeroDivisionError, which no handler of
\* _crawl, crawl or cli catches; the process ends without a harvest file
RateDivisionByZero ==
  /\ Running /\ Top.pc = "rate"
  /\ \E t \in clock..MaxClock :
       /\ RateRaises(harvest, t)
       /\ clock' = t
  /\ stack' = <<>>
  /\ cliPc' = "raised"
  /\ UNCHANGED <<cfg, made, earlier, fmt, harvest, out, printed, persisted,
                 nServed, nReadErr, port>>

\* lines 165-166, condition true: _crawl(surl, out, level + 1, harvest)
\* starts (lines 92-95)
Descend ==
  /\ Running /\ Top.pc = "descend"
  /\ DescendCond(CurEntry, Top.level)
  /\ LET surl == join(Top.url, CurEntry.d_name) IN
     /\ stack' = Append(SetTop([Top EXCEPT !.pc = "called"]),
                        NewFrame(surl, Top.level + 1))
     /\ printed' = Append(printed, <<"opening", surl>>)
  /\ UNCHANGED <<cfg, made, earlier, fmt, cliPc, harvest, out, persisted,
                 clock, nServed, nReadErr, port>>

\* line 165, condition false: the for loop takes the next entry
NoDescend ==
  /\ Running /\ Top.pc = "descend"
  /\ ~DescendCond(CurEntry, Top.level)
  /\ stack' = SetTop([Top EXCEPT !.pc = "loop", !.i = @ + 1])
  /\ UNCHANGED <<cfg, made, earlier, fmt, cliPc, harvest, out, printed,
                 persisted, clock, nServed, nReadErr, port>>

\* line 171: the for loop is over, return harvest
Return ==
  /\ Running /\ Top.pc = "loop" /\ Top.i = Len(Top.entries)
  /\ ReturnTo
  /\ UNCHANGED <<cfg, made, earlier, fmt, harvest, out, printed, persisted,
                 clock, nServed, nReadErr, port>>

\* cli() line 202: json.dump of the harvest crawl returned
Dump ==
  /\ cliPc = "returned"
  /\ persisted' = harvest
  /\ cliPc' = "written"
  /\ UNCHANGED <<cfg, made, earlier, fmt, stack, harvest, out, printed, clock,
                 nServed, nReadErr, port>>

Next ==
  \/ CrawlCall
  \/ OpendirFail
  \/ OpendirOk
  \/ ReadEntry
  \/ ReadEnd
  \/ ReadFail
  \/ ReadExcept
  \/ ChecksumSkipped
  \/ ChecksumOk
  \/ ChecksumFail
  \/ AppendRecord
  \/ AddEntrySize
  \/ RateAndProgress
  \/ RateDivisionByZero
  \/ Descend
  \/ NoDescend
  \/ Return
  \/ Dump

Spec == Init /\ [][Next]_vars

\* (mutant) a later crawl() goes on with the harvest dict of the one before
CrawlAgain_Shared ==
  /\ cliPc = "returned"
  /\ Len(earlier) < MaxCrawls - 1
  /\ earlier' = Append(earlier, [dict |-> made, harvest |-> harvest])
  /\ cliPc' = "crawling"
  /\ stack' = <<NewFrame(RootUrl, 0)>>
  /\ printed' = Append(printed, <<"opening", RootUrl>>)
  /\ UNCHANGED <<cfg, made, fmt, harvest, clock, out, persisted, nServed,
                 nReadErr, port>>

\* the caller keeps what crawl() returned and calls crawl() again on the
\* same Crawler (lines 174-175): _crawl is entered with harvest None, so
\* lines 84-89 make a new dict
CrawlAgain ==
  /\ cliPc = "returned"
  /\ Len(earlier) < MaxCrawls - 1
  /\ earlier' = Append(earlier, [dict |-> made, harvest |-> harvest])
  /\ \E t \in clock..MaxClock :
       /\ harvest' = NewHarvest(t)
       /\ clock' = t
  /\ made' = made + 1
  /\ cliPc' = "crawling"
  /\ stack' = <<NewFrame(RootUrl, 0)>>
  /\ printed' = Append(printed, <<"opening", RootUrl>>)
  /\ UNCHANGED <<cfg, fmt, out, persisted, nServed, nReadErr, port>>

NextTwice ==
  \/ Next
  \/ CrawlAgain

\* a caller that may call crawl() more than once before the dump
TwiceSpec == Init /\ [][NextTwice]_vars

\* a run whose -l option is set or not
LongSpec == InitLong /\ [][Next]_vars

\* _mode2str(fmt.mode) is called and returns
Render ==
  /\ fmt.str = <<>>
  /\ fmt' = [fmt EXCEPT !.str = mode2str(fmt.mode)]
  /\ UNCHANGED <<cfg, made, earlier, cliPc, stack, harvest, out, printed,
                 persisted, clock, nServed, nReadErr, port>>

ModeSpec == InitMode /\ [][Render]_vars

\* the interpreter keeps executing the single thread of cli()
LiveSpec == Spec /\ WF_vars(Next)

\* ... and no directory fails its reads for ever: a directory that is read
\* again and again gives its end at some read
FairSpec == Spec /\ WF_vars(Next) /\ SF_vars(ReadEnd)

TypeOK ==
  /\ cliPc \in {"start", "crawling", "returned", "written", "raised"}
  /\ clock \in 0..MaxClock
  /\ nServed \in 0..MaxEntries
  /\ nReadErr \in 0..MaxReadErrs
  /\ \A k \in 1..Len(stack) :
       stack[k].pc \in {"open", "read", "readexc", "loop", "append", "size",
                        "rate", "descend", "called"}

\* ------------------------------------------------------------ properties
Returned == cliPc \in {"returned", "written"}
Started == cliPc # "start"
Files == harvest.files
FileSizes == [k \in 1..Len(Files) |-> Files[k].fstat.size]
HasRecord(u) == \E k \in 1..Len(Files) : Files[k].url = u
NoChecksumsKey(rec) == "checksums" \notin DOMAIN rec
\* the depth at which a url is crawled: the root is at depth 0
LevelOf(url) == Len(url) - 1
OpenAttempted == port.opened \cup port.openFailed

\* C1: when the root call of crawl has returned, size_so_far equals the sum
\* of stat.size over the records of files
C1_SizeMatchesFiles ==
  Returned => harvest.size_so_far = Sum(FileSizes)

\* a crawl that returned after a failed open and a failed checksum
C1_Witness ==
  /\ Returned /\ Len(Files) >= 2
  /\ port.openFailed # {} /\ port.ckFailed # {}
  /\ \E k \in 1..Len(Files) : S_ISDIR(Files[k].fstat.mode)

\* C2: files is append-only: across every step of a crawl the old list is a
\* prefix of the new one
C2_FilesAppendOnly ==
  [][Started => IsPrefix(harvest.files, harvest'.files)]_vars

C2_Witness == Started /\ Len(Files) >= 3

\* the step in which opendir of the top frame's url raises
OpenFailStep ==
  /\ Running /\ Top.pc = "open"
  /\ port' # port
  /\ port'.last = Call("opendir", Top.url, Top.level, FALSE)

\* C3: a failed opendir(p), at any depth, leaves the harvest unchanged,
\* writes exactly one line for p and returns; a crawl whose root fails to
\* open returns files = [] and errors = []
C3_OpenFailLeavesHarvest ==
  [][OpenFailStep =>
       /\ harvest' = harvest
       /\ out' = Append(out, OpenFailLine(Top.level, Top.url))
       /\ Len(stack') = Len(stack) - 1
       /\ Len(stack) = 1 =>
            /\ cliPc' = "returned"
            /\ harvest'.files = <<>> /\ harvest'.errors = <<>>
            /\ Len(out') = 1]_vars

\* a subdirectory has just failed to open while files is not empty
C3_Witness ==
  /\ Started /\ port.last.op = "opendir" /\ ~port.last.ok
  /\ port.last.level >= 1 /\ Len(Files) >= 2
  /\ out[Len(out)] = OpenFailLine(port.last.level, port.last.url)

\* every entry a frame's for loop has passed has its record in files and,
\* if it is a directory within the depth limit, had its opendir attempted
PassedEntriesProcessed ==
  \A p \in 1..Len(stack) : \A k \in 1..stack[p].i :
    LET e == stack[p].entries[k]
        u == join(stack[p].url, e.d_name)
    IN /\ HasRecord(u)
       /\ (S_ISDIR(e.st_mode) /\ stack[p].level <= cfg.max_levels)
            => u \in OpenAttempted

\* C4: a failed opendir of a subdirectory is confined to that branch: the
\* parent's for loop resumes at the entry listed right after it, with its
\* entry list intact, and every entry a loop passes is appended to files
\* and, if a directory within the depth limit, descended into
C4_OpenFailIsolated ==
  /\ [](Started => PassedEntriesProcessed)
  /\ [][(OpenFailStep /\ Len(stack) >= 2) =>
          LET parent == stack[Len(stack) - 1] IN
          /\ cliPc' = "crawling"
          /\ stack' = [SubSeq(stack, 1, Len(stack) - 1)
                         EXCEPT ![Len(stack) - 1] =
                           [parent EXCEPT !.pc = "loop", !.i = parent.i + 1]]
          /\ parent.entries[parent.i + 1].d_name = Top.url[Len(Top.url)]]_vars

\* /a lists d1 then d2; d1 failed to open, d2 was appended and opened
C4_Witness ==
  /\ Started
  /\ \E l \in port.listed :
       /\ l[1] = RootUrl /\ Len(l[2]) >= 2
       /\ l[2][1].d_name = "d1" /\ l[2][2].d_name = "d2"
  /\ <<"a", "d1">> \in port.openFailed
  /\ <<"a", "d2">> \in port.opened
  /\ HasRecord(<<"a", "d2">>)

\* the step in which context.checksum raises for the top frame's entry
ChecksumFailStep ==
  /\ Running /\ Top.pc = "loop" /\ Top.i < Len(Top.entries)
  /\ port' # port
  /\ port'.last = Call("checksum", join(Top.url, CurEntry.d_name), Top.level, FALSE)

\* an entry whose checksum failed is on its way to files or in it, without
\* a checksums key
FailedChecksumsKept ==
  \A u \in port.ckFailed :
    \/ /\ Running /\ Top.pc = "append"
       /\ Top.record.url = u /\ NoChecksumsKey(Top.record)
    \/ \E k \in 1..Len(Files) :
         Files[k].url = u /\ NoChecksumsKey(Files[k])

\* size_so_far lags behind files only between lines 155 and 159
SizeInStep ==
  IF Running /\ Top.pc = "size"
  THEN harvest.size_so_far + CurEntry.st_size = Sum(FileSizes)
  ELSE harvest.size_so_far = Sum(FileSizes)

\* C5: when context.checksum fails for an entry, the crawl is not unwound:
\* the entry's record goes on to line 155 without a checksums key, is
\* appended to files, and its size is added to size_so_far
C5_ChecksumFailKeepsRecord ==
  /\ [](Started => (FailedChecksumsKept /\ SizeInStep))
  /\ [][ChecksumFailStep =>
          /\ cliPc' = "crawling" /\ harvest' = harvest
          /\ stack' = SetTop([Top EXCEPT !.pc = "append",
               !.record = BaseRecord(join(Top.url, CurEntry.d_name), CurEntry)])
        ]_vars

\* a record whose checksum failed is in files, counted, and followed by
\* the record of a later entry
C5_Witness ==
  /\ Started
  /\ \E k \in 1..Len(Files) :
       /\ k < Len(Files) /\ Files[k].url \in port.ckFailed
       /\ NoChecksumsKey(Files[k])
  /\ harvest.size_so_far = Sum(FileSizes)

\* C6: at line 165 a directory entry met at depth d is descended into, by a
\* _crawl at depth d + 1, exactly when d <= max_levels; so no opendir is
\* ever called at a depth above max_levels + 1
C6_DepthBound ==
  /\ [](\A u \in OpenAttempted : LevelOf(u) <= cfg.max_levels + 1)
  /\ [](\A p \in 1..Len(stack) : stack[p].level <= cfg.max_levels + 1)
  /\ [][(Running /\ Top.pc = "descend") =>
          ((S_ISDIR(CurEntry.st_mode) /\ Top.level <= cfg.max_levels)
            <=> /\ Len(stack') = Len(stack) + 1
                /\ stack'[Len(stack')] =
                     NewFrame(join(Top.url, CurEntry.d_name), Top.level + 1))
        ]_vars

\* max_levels = 0: a directory listed at depth 0 was descended into, and a
\* directory listed at depth 1 was passed without an opendir
C6_Witness ==
  /\ cfg.max_levels = 0 /\ Len(stack) = 2
  /\ Top.level = 1 /\ Top.pc = "loop" /\ Top.i >= 1
  /\ S_ISDIR(Top.entries[Top.i].st_mode)
  /\ join(Top.url, Top.entries[Top.i].d_name) \notin OpenAttempted

\* the namespace and configuration of the end-to-end scenario: /a lists
\* file f1 (size 100) then directory d1, /a/d1 lists file f2 (size 50),
\* max_levels = 1, no checksum algorithm, no call of the context failed,
\* and crawl has returned
F1 == CHOOSE e \in DirEntries : e.d_name = "f1"
F2 == CHOOSE e \in DirEntries : e.d_name = "f2"
D1 == CHOOSE e \in DirEntries : e.d_name = "d1"
ScenarioDone ==
  /\ Returned
  /\ cfg = [long |-> FALSE, max_levels |-> 1, checksum_alg |-> None]
  /\ port.listed = { <<RootUrl, <<F1, D1>>>>, << <<"a", "d1">>, <<F2>> >> }
  /\ port.openFailed = {} /\ port.ckFailed = {} /\ nReadErr = 0
ScenarioLedger == << [url |-> <<"a">>], [url |-> <<"a", "d1">>] >>

\* C7 as stated: the scenario ends with exactly the two records of f1 and
\* f2, size_so_far = 150, the ledger /a, /a/d1 and no checksums key
C7_AsStated ==
  ScenarioDone =>
    /\ Len(Files) = 2
    /\ Files[1].url = <<"a", "f1">> /\ Files[2].url = <<"a", "d1", "f2">>
    /\ harvest.size_so_far = 150
    /\ harvest.errors = ScenarioLedger
    /\ \A k \in 1..Len(Files) : NoChecksumsKey(Files[k])

\* C7 amended: the scenario ends with three records, f1, d1, f2 in that
\* order (the directory entry d1 has a record of its own),
\* size_so_far = 150 + the st_size of d1, the ledger /a, /a/d1 and no
\* checksums key on any record
C7_ScenarioHarvest ==
  ScenarioDone =>
    /\ Files = << [url |-> <<"a", "f1">>, fstat |-> [mode |-> 33188, size |-> 100]],
                  [url |-> <<"a", "d1">>, fstat |-> [mode |-> 16877, size |-> D1.st_size]],
                  [url |-> <<"a", "d1", "f2">>, fstat |-> [mode |-> 33188, size |-> 50]] >>
    /\ harvest.size_so_far = 150 + D1.st_size
    /\ harvest.errors = ScenarioLedger
    /\ \A k \in 1..Len(Files) : NoChecksumsKey(Files[k])

C7_Witness == ScenarioDone /\ cliPc = "written" /\ persisted = harvest

\* C8 as stated: whatever GErrors the context raises, the crawl eventually
\* returns and the harvest file is written.  The claim is about the
\* context's errors, so runs that line 161 ends with ZeroDivisionError are
\* set aside: in every other run the file is eventually written
C8_CrawlCompletes == <>(cliPc = "raised") \/ <>(cliPc = "written")

\* C9 as stated: a crawl in which every opendir failed returns a harvest
\* whose errors ledger is not empty
C9_FailedOpensOnLedger ==
  (Returned /\ port.opened = {}) => Len(harvest.errors) >= 1

\* C10: with checksum_alg None, context.checksum is never called and no
\* record of files has a checksums key
C10_NoAlgNoChecksum ==
  (Started /\ cfg.checksum_alg = None) =>
    /\ "checksum" \notin port.called
    /\ \A k \in 1..Len(Files) : NoChecksumsKey(Files[k])
    /\ \A p \in 1..Len(stack) :
         stack[p].pc \in {"append", "size", "rate", "descend", "called"}
           => NoChecksumsKey(stack[p].record)

\* a crawl without algorithm that returned three records
C10_Witness ==
  /\ Returned /\ cfg.checksum_alg = None /\ Len(Files) >= 3
  /\ out[Len(out)].kind = "entry" /\ out[Len(out)].checksums = "no checksums"

\* C11: at every point of a crawl the errors ledger is the sequence of the
\* urls whose opendir succeeded so far, in the order of the calls: one
\* entry per successful open, none per failed open
C11_LedgerIsOpenedDirs ==
  Started =>
    harvest.errors =
      [k \in 1..Len(port.openOrder) |-> [url |-> port.openOrder[k]]]

\* two directories opened, a third failed to open
C11_Witness ==
  /\ Started /\ Len(harvest.errors) = 2 /\ port.openFailed # {}
  /\ port.last.op = "opendir" /\ ~port.last.ok

\* the entries readpp returned for a directory, in the order of the calls
ServedReads(url) == SelectSeq(port.reads, LAMBDA r : r.url = url)
Served(url) == [k \in 1..Len(ServedReads(url)) |-> ServedReads(url)[k].entry]

\* the step in which readpp of the top frame's directory raises
ReadFailStep ==
  /\ Running /\ Top.pc = "read"
  /\ port' # port
  /\ port'.last = Call("readpp", Top.url, Top.level, FALSE)

\* C12: a GError of readpp neither aborts nor truncates the listing: the
\* step keeps the entries collected so far and enters the handler, the
\* handler writes the error line for the url (within the recorded window of
\* out) and goes back to reading, and the collected list is always exactly
\* the entries readpp returned for that directory, in order
C12_ReadErrorKeepsListing ==
  /\ [](Started =>
          \A p \in 1..Len(stack) :
            stack[p].pc # "open" => stack[p].entries = Served(stack[p].url))
  /\ [](\A l \in port.listed : l[2] = Served(l[1]))
  /\ [][ReadFailStep =>
          /\ cliPc' = "crawling" /\ harvest' = harvest
          /\ stack' = SetTop([Top EXCEPT !.pc = "readexc"])]_vars
  /\ [][(Running /\ Top.pc = "readexc") =>
          /\ cliPc' = "crawling" /\ harvest' = harvest
          /\ stack' = SetTop([Top EXCEPT !.pc = "read"])
          /\ nReadErr < MaxReadErrs =>
               out' = Append(out, ReadErrLine(Top.level, Top.url))]_vars

\* a read of the directory failed, its line was written, and the read after
\* it returned an entry, which is the last of the collected list
C12_Witness ==
  /\ Running /\ Top.pc = "read" /\ Len(Top.entries) >= 2
  /\ Len(out) > 0 /\ out[Len(out)] = ReadErrLine(Top.level, Top.url)
  /\ port.last = Call("readpp", Top.url, Top.level, TRUE)
  /\ port.reads[Len(port.reads)] =
       ReadResult(Top.url, Top.entries[Len(Top.entries)])

\* the depth-first pre-order walk of what the context served: the entries
\* of a directory in the order readpp returned them, each followed by the
\* walk of its subtree if it is a directory within the depth limit whose
\* opendir succeeded
RECURSIVE PreOrder(_, _)
PreOrder(url, level) ==
  IF url \notin port.opened THEN <<>>
  ELSE LET es == Served(url)
           RECURSIVE Over(_)
           Over(k) ==
             IF k > Len(es) THEN <<>>
             ELSE LET u == join(url, es[k].d_name) IN
                  <<u>>
                  \o (IF S_ISDIR(es[k].st_mode) /\ level <= cfg.max_levels
                      THEN PreOrder(u, level + 1) ELSE <<>>)
                  \o Over(k + 1)
       IN Over(1)

FileUrls == [k \in 1..Len(Files) |-> Files[k].url]

\* C13: the urls of files are the depth-first pre-order walk of the
\* listings: listing order within a directory, a descended directory's
\* record right before the records of its subtree, and those before the
\* record of its next sibling
C13_FilesInPreOrder ==
  Returned => FileUrls = PreOrder(RootUrl, 0)

\* /a lists d1 and then another entry, /a/d1 lists f2
C13_Witness ==
  /\ Returned /\ Len(Files) = 3
  /\ FileUrls[1] = <<"a", "d1">> /\ FileUrls[2] = <<"a", "d1", "f2">>
  /\ Len(FileUrls[3]) = 2

Collecting(f) == f.pc \in {"read", "readexc"}
Listed(url) == \E l \in port.listed : l[1] = url
IsChildOf(u, url) == Len(u) = Len(url) + 1 /\ SubSeq(u, 1, Len(url)) = url

\* C14: between a successful opendir(p) and the end-of-directory signal of
\* p the code only reads: no step of that phase touches the harvest, calls
\* checksum or opendir, or starts a nested _crawl; the for loop is entered
\* only by the end-of-directory signal, and while p is being read no entry
\* of p has a record, a failed checksum or an attempted opendir
C14_CollectThenProcess ==
  /\ [](Started =>
          \A p \in 1..Len(stack) :
            /\ stack[p].pc \notin {"open", "read", "readexc"}
                 => Listed(stack[p].url)
            /\ Collecting(stack[p]) =>
                 /\ ~Listed(stack[p].url)
                 /\ \A k \in 1..Len(Files) : ~IsChildOf(Files[k].url, stack[p].url)
                 /\ \A u \in OpenAttempted \cup port.ckFailed :
                      ~IsChildOf(u, stack[p].url))
  /\ [][(Running /\ Collecting(Top)) =>
          /\ harvest' = harvest
          /\ Len(stack') = Len(stack)
          /\ stack'[Len(stack')].pc \in {"read", "readexc", "loop"}
          /\ port' # port => port'.last.op = "readpp"
          /\ stack'[Len(stack')].pc = "loop" =>
               /\ port'.listed = port.listed \cup {<<Top.url, Top.entries>>}
               /\ stack'[Len(stack')].entries = Top.entries]_vars

\* a subdirectory's listing has just ended with two entries collected and
\* none of them processed yet
C14_Witness ==
  /\ Running /\ Len(stack) >= 2 /\ Top.pc = "loop" /\ Top.i = 0
  /\ Len(Top.entries) = 2 /\ Listed(Top.url)
  /\ \A k \in 1..Len(Top.entries) :
       ~HasRecord(join(Top.url, Top.entries[k].d_name))

\* C15 as stated: the throughput computation of an entry never fails:
\* whatever the clock reads (also harvest_t0 itself, elapsed time zero), the
\* step of lines 161-163 emits the entry's progress line and the crawl
\* goes on to line 165
C15_RateNeverFails ==
  [][(Running /\ Top.pc = "rate") =>
       /\ cliPc' = "crawling"
       /\ out' = Append(out, EntryLine(harvest, Top.level,
                   join(Top.url, CurEntry.d_name), CurEntry, Top.record))
       /\ stack' = SetTop([Top EXCEPT !.pc = "descend"])]_vars

\* C16: every crawl() call makes its own harvest dict: the dict of a call
\* is none of those earlier calls returned, a call after the first starts
\* with files = [], errors = [] and size_so_far = 0 whatever the one before
\* accumulated (which the caller keeps as it was returned), and within one
\* call no step, recursive or not, makes another dict
C16_FreshHarvestPerCrawl ==
  /\ [](\A k \in 1..Len(earlier) : earlier[k].dict # made)
  /\ [][(cliPc = "returned" /\ cliPc' = "crawling") =>
          /\ harvest'.files = <<>> /\ harvest'.errors = <<>>
          /\ harvest'.size_so_far = 0
          /\ earlier'[Len(earlier')].harvest = harvest]_vars
  /\ [][Running => (made' = made /\ earlier' = earlier)]_vars

\* the first crawl returned two records or more; the second one opened the
\* root, found it empty and returned a harvest without records
C16_Witness ==
  /\ cliPc = "returned" /\ Len(earlier) = 1
  /\ Len(earlier[1].harvest.files) >= 2
  /\ earlier[1].harvest.size_so_far > 0
  /\ harvest.files = <<>> /\ harvest.size_so_far = 0
  /\ harvest.errors = <<[url |-> RootUrl]>>

\* bit k of a mode (bit 0 is the lowest)
PermBit(mode, k) == (mode \div (2 ^ k)) % 2 = 1
Rendered == fmt.str # <<>>

\* C17 as stated: the group triad (characters 5-7) and the other triad
\* (characters 8-10) show the letters of the user triad (characters 2-4)
C17_AsStated ==
  Rendered =>
    /\ SubSeq(fmt.str, 5, 7) = SubSeq(fmt.str, 2, 4)
    /\ SubSeq(fmt.str, 8, 10) = SubSeq(fmt.str, 2, 4)

\* C17, amended: the string has 10 characters; the first is the file type;
\* each triad shows the mode's own bits of its class: user 0o400 0o200
\* 0o100, group 0o040 0o020 0o010, other 0o004 0o002 0o001
C17_TriadsOwnBits ==
  Rendered =>
    /\ Len(fmt.str) = 10
    /\ fmt.str[1] = TypeChar(fmt.mode)
    /\ \A c \in 0..2 :
         /\ fmt.str[2 + 3 * c] = IF PermBit(fmt.mode, 8 - 3 * c) THEN "r" ELSE "-"
         /\ fmt.str[3 + 3 * c] = IF PermBit(fmt.mode, 7 - 3 * c) THEN "w" ELSE "-"
         /\ fmt.str[4 + 3 * c] = IF PermBit(fmt.mode, 6 - 3 * c) THEN "x" ELSE "-"

\* a regular file of mode 0700 is rendered -rwx------
C17_Witness ==
  /\ fmt.mode = 8 * 4096 + 448
  /\ fmt.str = <<"-", "r", "w", "x", "-", "-", "-", "-", "-", "-">>

\* C18 as stated: the progress line of an entry carries the long listing
\* when the Crawler was made with long true, the short one (the name only)
\* when it was made with long false
C18_ListingFollowsLong ==
  [][(Running /\ Top.pc = "rate" /\ Len(out') = Len(out) + 1) =>
       out'[Len(out')].listing =
         IF cfg.long THEN long_format(CurEntry.d_name, CurEntry)
         ELSE short_format(CurEntry.d_name)]_vars

\* the crawl is over
Ended == cliPc \in {"written", "raised"}

\* C19: the namespace nests d1 in d1 without end, yet no _crawl runs at a
\* level above max_levels + 1 and at most max_levels + 2 of them are
\* active; and when every directory that is read gives its end at some
\* read, the crawl ends (line 202 is reached, or the exception of line 161
\* has ended the process)
C19_TerminatesByDepth ==
  /\ [](\A p \in 1..Len(stack) : stack[p].level = p - 1)
  /\ [](Len(stack) <= cfg.max_levels + 2)
  /\ <>Ended

\* the crawl is over; it listed d1 in d1 at level max_levels + 1, recorded
\* it and did not open it, after a read error
C19_Witness ==
  /\ cliPc = "written" /\ nReadErr >= 1
  /\ \E l \in port.listed :
       /\ LevelOf(l[1]) = cfg.max_levels + 1
       /\ \E k \in 1..Len(l[2]) :
            /\ S_ISDIR(l[2][k].st_mode)
            /\ basename(l[1]) = l[2][k].d_name
            /\ join(l[1], l[2][k].d_name) \notin OpenAttempted

\* the records of files with a given url
RecordsOf(u) == {k \in 1..Len(Files) : Files[k].url = u}

\* the step of line 166 in which a _crawl for the top frame's entry starts
DescendStep == Running /\ Top.pc = "descend" /\ Len(stack') = Len(stack) + 1

\* C20: when the _crawl of a directory entry starts, the entry's record is
\* the last of files, it is the only one for its url and its size is in
\* size_so_far; so every url whose opendir was tried below the root,
\* failed or not, has exactly one record; and when crawl has returned,
\* every entry of every listing, file or directory, has exactly one record
C20_OneRecordBeforeOpen ==
  /\ [][DescendStep =>
          LET surl == join(Top.url, CurEntry.d_name) IN
          /\ Len(Files) >= 1 /\ Files[Len(Files)].url = surl
          /\ Cardinality(RecordsOf(surl)) = 1
          /\ harvest.size_so_far = Sum(FileSizes)
          /\ surl \notin OpenAttempted
          /\ harvest' = harvest]_vars
  /\ [](Started =>
          \A u \in OpenAttempted \ {RootUrl} : Cardinality(RecordsOf(u)) = 1)
  /\ [](Returned =>
          \A l \in port.listed : \A k \in 1..Len(l[2]) :
            Cardinality(RecordsOf(join(l[1], l[2][k].d_name))) = 1)

\* crawl returned; one subdirectory failed to open, another one lay beyond
\* the depth limit and was not opened; both have their record
C20_Witness ==
  /\ cliPc = "written"
  /\ \E u \in port.openFailed : u # RootUrl /\ Cardinality(RecordsOf(u)) = 1
  /\ \E k \in 1..Len(Files) :
       /\ S_ISDIR(Files[k].fstat.mode)
       /\ LevelOf(Files[k].url) = cfg.max_levels + 2
       /\ Files[k].url \notin OpenAttempted

====
